---- MODULE Spec2Model ----
(***************************************************************************)
(* One-way folder synchronisation (FolderSync.sync of src/src/foldersync.js)*)
(* as a state machine over one filesystem that holds the source tree and    *)
(* the destination tree.  Every action is the completion callback of one    *)
(* filesystem operation together with the synchronous code that runs in     *)
(* that callback up to the next operation it issues.                        *)
(*                                                                         *)
(* Strings that the code inspects character by character (file names,       *)
(* ignore patterns, the relative path handed to minimatch) are sequences    *)
(* of one-character strings.  Filesystem paths are sequences of such names. *)
(***************************************************************************)
EXTENDS Integers, Sequences, FiniteSets, TLC

VARIABLES
    fs,          \* the filesystem: absolute path -> [kind, hash]
    args,        \* arguments of the current / last sync call
    stack,       \* the _syncFolder invocations in progress, innermost last
    inflight,    \* the one filesystem operation whose callback is pending
    cbCalls,     \* what the caller's callback received during this call
    run,         \* number of sync calls started so far
    issued,      \* operations issued by the current call: set of [op, path]
    failure,     \* the first error an operation returned in this call
    faults,      \* whether the environment may make an operation of this call fail
    hist,        \* the completed calls and the edits made between calls
    query        \* input and verdict of a stand-alone isIgnoreFile evaluation

vars == <<fs, args, stack, inflight, cbCalls, run, issued, failure, faults,
          hist, query>>

----------------------------------------------------------------------------
(* Strings                                                                  *)

SLASH == "/"
STAR == "*"
QMARK == "?"
DOT == "."

s_dir1 == <<"d", "i", "r", "1">>
s_dir2 == <<"d", "i", "r", "2">>
s_dir3 == <<"d", "i", "r", "3">>
s_doc == <<"d", "o", "c">>
s_frotz == <<"f", "r", "o", "t", "z">>
s_a == <<"a">>
s_a_txt == <<"a", ".", "t", "x", "t">>
s_b_md == <<"b", ".", "m", "d">>
s_ext_txt == <<".", "t", "x", "t">>
s_dot_c_txt == <<".", "c", ".", "t", "x", "t">>

\* '*.txt', '/dir3', 'doc/frotz', '/doc/frotz' ...
p_star_txt == <<STAR>> \o s_ext_txt
p_dir2 == s_dir2
p_dir3 == s_dir3
p_slash_dir3 == <<SLASH>> \o s_dir3
p_doc_frotz == s_doc \o <<SLASH>> \o s_frotz
p_slash_doc_frotz == <<SLASH>> \o p_doc_frotz
p_frotz == s_frotz
p_frotz_slash == s_frotz \o <<SLASH>>

\* str.split(/\/+/): the pieces between maximal runs of slashes
RECURSIVE SplitFrom(_, _, _)
SplitFrom(str, i, cur) ==
    IF i > Len(str) THEN <<cur>>
    ELSE IF str[i] = SLASH
         THEN IF i > 1 /\ str[i - 1] = SLASH
              THEN SplitFrom(str, i + 1, cur)
              ELSE <<cur>> \o SplitFrom(str, i + 1, <<>>)
         ELSE SplitFrom(str, i + 1, Append(cur, str[i]))

slashSplit(str) == SplitFrom(str, 1, <<>>)

\* path.join(internal_folder_path, fileName) for a path that starts with '/'
\* and a plain name: '/' + 'x' = '/x', '/a' + 'x' = '/a/x'
PathJoinRel(folderPath, fileName) ==
    IF folderPath[Len(folderPath)] = SLASH
    THEN folderPath \o fileName
    ELSE folderPath \o <<SLASH>> \o fileName

----------------------------------------------------------------------------
(* minimatch(filePath, pattern, {matchBase: true}), for patterns made of    *)
(* literal characters, '*', '?', '**' and '/'.                              *)

GLOBSTAR == <<STAR, STAR>>

HasMagic(seg) == \E i \in 1..Len(seg) : seg[i] \in {STAR, QMARK}

\* the regular expression of one pattern segment: '*' is [^/]*?, '?' is [^/]
RECURSIVE GlobRe(_, _)
GlobRe(name, seg) ==
    IF seg = <<>> THEN name = <<>>
    ELSE IF seg[1] = STAR
         THEN \/ GlobRe(name, Tail(seg))
              \/ name # <<>> /\ GlobRe(Tail(name), seg)
    ELSE IF name = <<>> THEN FALSE
    ELSE IF seg[1] = QMARK THEN GlobRe(Tail(name), Tail(seg))
    ELSE name[1] = seg[1] /\ GlobRe(Tail(name), Tail(seg))

\* one parsed pattern part against one path part: a part without magic is
\* compared as a string; a part with magic is a regular expression that
\* refuses the empty part ('(?=.)') and, when it starts with '*' or '?',
\* a part starting with '.' ('(?!\.)', the dot option being off)
PartMatch(f, p) ==
    IF ~HasMagic(p) THEN f = p
    ELSE /\ f # <<>>
         /\ (p[1] \in {STAR, QMARK} => f[1] # DOT)
         /\ GlobRe(f, p)

DotPart(f) == f # <<>> /\ f[1] = DOT

\* Minimatch.matchOne(file, pattern, partial = false)
RECURSIVE matchOne(_, _)
matchOne(file, pattern) ==
    IF file = <<>> /\ pattern = <<>> THEN TRUE
    ELSE IF file = <<>> THEN FALSE
    ELSE IF pattern = <<>> THEN Len(file) = 1 /\ file[1] = <<>>
    ELSE IF pattern[1] = GLOBSTAR
         THEN IF Len(pattern) = 1
              THEN \A i \in 1..Len(file) : ~DotPart(file[i])
              ELSE \E fr \in 1..Len(file) :
                      /\ \A j \in 1..(fr - 1) : ~DotPart(file[j])
                      /\ matchOne(SubSeq(file, fr, Len(file)), Tail(pattern))
    ELSE PartMatch(file[1], pattern[1]) /\ matchOne(Tail(file), Tail(pattern))

\* the last non-empty part of the path
RECURSIVE Basename(_)
Basename(f) ==
    IF f = <<>> THEN <<>>
    ELSE IF f[Len(f)] # <<>> THEN f[Len(f)]
    ELSE Basename(SubSeq(f, 1, Len(f) - 1))

\* Minimatch.match as it is without the matchBase option
minimatchWholePath(filePath, pattern) ==
    IF pattern = <<>> THEN filePath = <<>>
    ELSE matchOne(slashSplit(filePath), slashSplit(pattern))

\* Minimatch.match under matchBase: a pattern of one part is matched
\* against the basename alone, any other pattern against the whole path
minimatch(filePath, pattern) ==
    LET f == slashSplit(filePath)
        set == slashSplit(pattern)
        file == IF Len(set) = 1 THEN <<Basename(f)>> ELSE f
    IN  IF pattern = <<>> THEN filePath = <<>>
        ELSE matchOne(file, set)

----------------------------------------------------------------------------
(* The filesystem and the collaborators (jsfileutils, fs-extra)             *)

s_src == <<"s", "r", "c">>
s_tmp == <<"t", "m", "p">>
s_dst == <<"d", "s", "t">>

\* the two roots handed to sync(): the destination lies in a directory of
\* its own, which may be missing
sourceRoot == <<s_src>>
destRoot == <<s_tmp, s_dst>>

FolderInfo == "FolderInfo"
FileInfo == "FileInfo"

Folder == [kind |-> FolderInfo, hash |-> 0]
File(h) == [kind |-> FileInfo, hash |-> h]

NoErr == [type |-> "none", path |-> <<>>]
Err(type, path) == [type |-> type, path |-> path]

IsPrefix(p, q) == Len(p) <= Len(q) /\ SubSeq(q, 1, Len(p)) = p
Parent(p) == SubSeq(p, 1, Len(p) - 1)
Last(seq) == seq[Len(seq)]
Front(seq) == SubSeq(seq, 1, Len(seq) - 1)

Exists(f, p) == p \in DOMAIN f
IsFolderAt(f, p) == p \in DOMAIN f /\ f[p].kind = FolderInfo
IsFileAt(f, p) == p \in DOMAIN f /\ f[p].kind = FileInfo

\* path.join(folderPath, name) on filesystem paths
PathJoin(folderPath, name) == Append(folderPath, name)

\* the entries of a directory, as FileUtils.list reports them (in no order)
Entries(f, p) ==
    {[fileName |-> Last(q), kind |-> f[q].kind] :
        q \in {r \in DOMAIN f : Len(r) = Len(p) + 1 /\ IsPrefix(p, r)}}

\* every order in which a listing may come back
Orders(S) ==
    {o \in [1..Cardinality(S) -> S] :
        \A i, j \in 1..Cardinality(S) : o[i] = o[j] => i = j}

\* FileUtils.list(path): fails unless path is a directory
ListErr(f, p) ==
    IF IsFolderAt(f, p) THEN NoErr ELSE Err("ListingError", p)

\* fse.ensureDir(path): creates path and its missing ancestors; fails when
\* path or an ancestor is a file
EnsureDirErr(f, p) ==
    IF \E k \in 1..Len(p) : IsFileAt(f, SubSeq(p, 1, k))
    THEN Err("DirectoryCreationError", p)
    ELSE NoErr

EnsureDirFs(f, p) ==
    LET new == {SubSeq(p, 1, k) : k \in 1..Len(p)} \ DOMAIN f
    IN  [q \in DOMAIN f \cup new |-> IF q \in DOMAIN f THEN f[q] ELSE Folder]

\* fse.remove(path): removes the entry and everything beneath it; a missing
\* path is no error
RemoveFs(f, p) ==
    [q \in {r \in DOMAIN f : ~IsPrefix(p, r)} |-> f[q]]

\* FileUtils.hashFile(path, sha256): the digest of a file's bytes
HashErr(f, p) ==
    IF IsFileAt(f, p) THEN NoErr ELSE Err("HashingError", p)

HashFile(f, p) == f[p].hash

\* fse.copy(source, dest, {preserveTimestamps}) for a source file: writes
\* dest (creating its directory), and refuses to overwrite a directory
CopyErr(f, s, d) ==
    IF ~IsFileAt(f, s) \/ IsFolderAt(f, d)
       \/ (\E k \in 1..(Len(d) - 1) : IsFileAt(f, SubSeq(d, 1, k)))
    THEN Err("CopyError", d)
    ELSE NoErr

CopyFs(f, s, d) ==
    LET g == EnsureDirFs(f, Parent(d))
    IN  [q \in DOMAIN g \cup {d} |-> IF q = d THEN f[s] ELSE g[q]]

\* the tree below a root, by root-relative path
Subtree(f, root) ==
    [rel \in {SubSeq(q, Len(root) + 1, Len(q)) :
                q \in {r \in DOMAIN f : IsPrefix(root, r) /\ r # root}}
        |-> f[root \o rel]]

----------------------------------------------------------------------------
(* FolderSync: the synchronous code between two filesystem operations.      *)
(* m = [stack, inflight, cbCalls, issued] is what that code reads and sets. *)

Undefined == [defined |-> FALSE, globs |-> <<>>]
Globs(list) == [defined |-> TRUE, globs |-> list]

NoOp == [op |-> "none", step |-> "none", path |-> <<>>,
         sourceFilePath |-> <<>>, destFilePath |-> <<>>, sourceFileHash |-> 0]

Op(op, step, path, sourceFilePath, destFilePath, sourceFileHash) ==
    [op |-> op, step |-> step, path |-> path,
     sourceFilePath |-> sourceFilePath, destFilePath |-> destFilePath,
     sourceFileHash |-> sourceFileHash]

\* hand one operation to the filesystem; its callback runs later
Issue(m, o) ==
    [m EXCEPT !.inflight = o,
              !.issued = @ \cup {[op |-> o.op, path |-> o.path]}]

\* the frame of one _syncFolder invocation: its parameters and the lists
\* its closures share
Frame(sourceFolderPath, destFolderPath, deleteExtraneous, ignoreFileGlobs, internal_folder_path) ==
    [sourceFolderPath |-> sourceFolderPath,
     destFolderPath |-> destFolderPath,
     deleteExtraneous |-> deleteExtraneous,
     ignoreFileGlobs |-> ignoreFileGlobs,
     internal_folder_path |-> internal_folder_path,
     sourceFileInfoList |-> <<>>,
     toBeRemovedNames |-> <<>>,
     toBeAddedFileNames |-> <<>>,
     toBeAddedFolderNames |-> <<>>]

Top(m) == m.stack[Len(m.stack)]
SetTop(m, fr) == [m EXCEPT !.stack[Len(m.stack)] = fr]

\* isIgnoreFile(fileName) of the invocation at internal_folder_path
isIgnoreFile(ignoreFileGlobs, internal_folder_path, fileName) ==
    IF ~ignoreFileGlobs.defined THEN FALSE
    ELSE LET filePath == PathJoinRel(internal_folder_path, fileName)
         IN  \E i \in 1..Len(ignoreFileGlobs.globs) :
                 minimatch(filePath, ignoreFileGlobs.globs[i])

isFolder(abstractFileInfo) == abstractFileInfo.kind = FolderInfo

UndefinedItem == [fileName |-> <<>>, kind |-> "undefined"]

findFileInfoItemByFileName(fileInfoList, fileName) ==
    IF \E i \in 1..Len(fileInfoList) : fileInfoList[i].fileName = fileName
    THEN fileInfoList[CHOOSE i \in 1..Len(fileInfoList) :
                         /\ fileInfoList[i].fileName = fileName
                         /\ \A j \in 1..(i - 1) :
                               fileInfoList[j].fileName # fileName]
    ELSE UndefinedItem

FileNames(fileInfoList) ==
    [i \in 1..Len(fileInfoList) |-> fileInfoList[i].fileName]

\* _syncFolder(...): push the invocation and list the source folder
SyncFolder(m, fr) ==
    Issue([m EXCEPT !.stack = Append(@, fr)],
          Op("list", "listSource", fr.sourceFolderPath, <<>>, <<>>, 0))

\* the callback of sync() without the return that follows callback(err)
SyncCallbackFallsThrough(m, err) ==
    IF err # NoErr
    THEN [m EXCEPT !.cbCalls = Append(Append(@, err), NoErr)]
    ELSE [m EXCEPT !.cbCalls = Append(@, NoErr)]

\* the callback sync() hands to the outermost _syncFolder
SyncCallback(m, err) ==
    IF err # NoErr
    THEN [m EXCEPT !.cbCalls = Append(@, err)]
    ELSE [m EXCEPT !.cbCalls = Append(@, NoErr)]

RECURSIVE Callback(_, _)
RECURSIVE processUpdateFolders(_)

\* the callback processUpdateFolders hands to a nested _syncFolder
SubFolderCallback(m, err) ==
    IF err # NoErr
    THEN Callback(m, err)
    ELSE processUpdateFolders(m)

\* `callback` of the innermost invocation: the invocation is over
Callback(m, err) ==
    LET up == [m EXCEPT !.stack = Front(@), !.inflight = NoOp]
    IN  IF up.stack = <<>>
        THEN SyncCallback(up, err)
        ELSE SubFolderCallback(up, err)

\* processUpdateFolders that joins the folder name to '/' and not to the
\* relative path of its own invocation
processUpdateFoldersFromRoot(m) ==
    LET fr == Top(m)
        names == fr.toBeAddedFolderNames
    IN  IF Len(names) = 0
        THEN Callback(m, NoErr)
        ELSE LET folderName == Last(names)
                 popped == SetTop(m, [fr EXCEPT !.toBeAddedFolderNames = Front(names)])
             IN  SyncFolder(popped,
                     Frame(PathJoin(fr.sourceFolderPath, folderName),
                           PathJoin(fr.destFolderPath, folderName),
                           fr.deleteExtraneous, fr.ignoreFileGlobs,
                           PathJoinRel(<<SLASH>>, folderName)))

\* processUpdateFolders that reads the last folder name and leaves it in
\* the list
processUpdateFoldersKeepsName(m) ==
    LET fr == Top(m)
        names == fr.toBeAddedFolderNames
    IN  IF Len(names) = 0
        THEN Callback(m, NoErr)
        ELSE LET folderName == Last(names)
             IN  SyncFolder(m,
                     Frame(PathJoin(fr.sourceFolderPath, folderName),
                           PathJoin(fr.destFolderPath, folderName),
                           fr.deleteExtraneous, fr.ignoreFileGlobs,
                           PathJoinRel(fr.internal_folder_path, folderName)))

processUpdateFolders(m) ==
    LET fr == Top(m)
        names == fr.toBeAddedFolderNames
    IN  IF Len(names) = 0
        THEN Callback(m, NoErr)
        ELSE LET folderName == Last(names)
                 popped == SetTop(m, [fr EXCEPT !.toBeAddedFolderNames = Front(names)])
             IN  SyncFolder(popped,
                     Frame(PathJoin(fr.sourceFolderPath, folderName),
                           PathJoin(fr.destFolderPath, folderName),
                           fr.deleteExtraneous, fr.ignoreFileGlobs,
                           PathJoinRel(fr.internal_folder_path, folderName)))

\* the callback processUpdateFiles hands to _updateFiles
UpdateFilesCallback(m, err) ==
    IF err # NoErr
    THEN Callback(m, err)
    ELSE processUpdateFolders(m)

\* _updateFile(sourceFilePath, destFilePath, callback): hash the source first
UpdateFile(m, sourceFilePath, destFilePath) ==
    Issue(m, Op("hashFile", "hashSource", sourceFilePath,
                sourceFilePath, destFilePath, 0))

\* processNext that joins the file name to the folders of the outermost
\* invocation
processNextInRoot(m) ==
    LET fr == Top(m)
        names == fr.toBeAddedFileNames
    IN  IF Len(names) = 0
        THEN UpdateFilesCallback(m, NoErr)
        ELSE LET fileName == Last(names)
                 popped == SetTop(m, [fr EXCEPT !.toBeAddedFileNames = Front(names)])
             IN  UpdateFile(popped,
                            PathJoin(m.stack[1].sourceFolderPath, fileName),
                            PathJoin(m.stack[1].destFolderPath, fileName))

\* processNext of _updateFiles, on the list it shares with the invocation
processNext(m) ==
    LET fr == Top(m)
        names == fr.toBeAddedFileNames
    IN  IF Len(names) = 0
        THEN UpdateFilesCallback(m, NoErr)
        ELSE LET fileName == Last(names)
                 popped == SetTop(m, [fr EXCEPT !.toBeAddedFileNames = Front(names)])
             IN  UpdateFile(popped,
                            PathJoin(fr.sourceFolderPath, fileName),
                            PathJoin(fr.destFolderPath, fileName))

\* the callback processNext hands to _updateFile
UpdateFileCallback(m, err) ==
    IF err # NoErr
    THEN UpdateFilesCallback(m, err)
    ELSE processNext(m)

\* processUpdateFiles with its test turned round
processUpdateFilesInverted(m) ==
    IF Len(Top(m).toBeAddedFileNames) # 0
    THEN processUpdateFolders(m)
    ELSE processNext(m)

processUpdateFiles(m) ==
    IF Len(Top(m).toBeAddedFileNames) = 0
    THEN processUpdateFolders(m)
    ELSE processNext(m)

\* processRemove that joins the name to the source folder
processRemoveInSource(m) ==
    LET fr == Top(m)
        names == fr.toBeRemovedNames
    IN  IF Len(names) = 0
        THEN processUpdateFiles(m)
        ELSE LET fileName == Last(names)
                 popped == SetTop(m, [fr EXCEPT !.toBeRemovedNames = Front(names)])
             IN  Issue(popped,
                       Op("remove", "remove", PathJoin(fr.sourceFolderPath, fileName),
                          <<>>, <<>>, 0))

processRemove(m) ==
    LET fr == Top(m)
        names == fr.toBeRemovedNames
    IN  IF Len(names) = 0
        THEN processUpdateFiles(m)
        ELSE LET fileName == Last(names)
                 popped == SetTop(m, [fr EXCEPT !.toBeRemovedNames = Front(names)])
             IN  Issue(popped,
                       Op("remove", "remove", PathJoin(fr.destFolderPath, fileName),
                          <<>>, <<>>, 0))

\* the callback of fse.remove without its error branch
RemoveCallbackGoesOn(m, err) == processRemove(m)

\* the callback of fse.remove that leaves the rest of the list alone
RemoveCallbackStops(m, err) ==
    IF err # NoErr
    THEN Callback(m, err)
    ELSE processUpdateFiles(m)

\* the callback of fse.remove
RemoveCallback(m, err) ==
    IF err # NoErr
    THEN Callback(m, err)
    ELSE processRemove(m)

\* the classification that keeps the folders the source does not have
ToBeRemovedSparesFolders(deleteExtraneous, sourceFileInfoItem, destFileInfoItem) ==
    IF deleteExtraneous
    THEN \/ sourceFileInfoItem = UndefinedItem /\ ~isFolder(destFileInfoItem)
         \/ /\ sourceFileInfoItem # UndefinedItem
            /\ isFolder(sourceFileInfoItem) # isFolder(destFileInfoItem)
    ELSE /\ sourceFileInfoItem # UndefinedItem
         /\ isFolder(sourceFileInfoItem) # isFolder(destFileInfoItem)

\* the classification that forgets the entries of the other kind
ToBeRemovedMissingOnly(deleteExtraneous, sourceFileInfoItem, destFileInfoItem) ==
    deleteExtraneous /\ sourceFileInfoItem = UndefinedItem

\* the classification that takes deleteExtraneous for set
ToBeRemovedAlways(deleteExtraneous, sourceFileInfoItem, destFileInfoItem) ==
    \/ sourceFileInfoItem = UndefinedItem
    \/ isFolder(sourceFileInfoItem) # isFolder(destFileInfoItem)

\* the classification that never looks at deleteExtraneous
ToBeRemovedKindOnly(deleteExtraneous, sourceFileInfoItem, destFileInfoItem) ==
    /\ sourceFileInfoItem # UndefinedItem
    /\ isFolder(sourceFileInfoItem) # isFolder(destFileInfoItem)

\* the classification with its two branches exchanged
ToBeRemovedSwapped(deleteExtraneous, sourceFileInfoItem, destFileInfoItem) ==
    IF ~deleteExtraneous
    THEN \/ sourceFileInfoItem = UndefinedItem
         \/ isFolder(sourceFileInfoItem) # isFolder(destFileInfoItem)
    ELSE /\ sourceFileInfoItem # UndefinedItem
         /\ isFolder(sourceFileInfoItem) # isFolder(destFileInfoItem)

\* which destination entries go: lines 224-250
ToBeRemoved(deleteExtraneous, sourceFileInfoItem, destFileInfoItem) ==
    IF deleteExtraneous
    THEN \/ sourceFileInfoItem = UndefinedItem
         \/ isFolder(sourceFileInfoItem) # isFolder(destFileInfoItem)
    ELSE /\ sourceFileInfoItem # UndefinedItem
         /\ isFolder(sourceFileInfoItem) # isFolder(destFileInfoItem)

\* the classification that does not ask isIgnoreFile about the entries of
\* the destination
ClassifyRemovesIgnored(m, destFileInfoList) ==
    LET fr == Top(m)
        ignored(fileName) ==
            isIgnoreFile(fr.ignoreFileGlobs, fr.internal_folder_path, fileName)
        removeIt(destFileInfoItem) ==
            ToBeRemoved(fr.deleteExtraneous,
                findFileInfoItemByFileName(fr.sourceFileInfoList,
                                           destFileInfoItem.fileName),
                destFileInfoItem)
        addFile(item) == ~isFolder(item) /\ ~ignored(item.fileName)
        addFolder(item) == isFolder(item) /\ ~ignored(item.fileName)
    IN  processRemove(SetTop(m,
            [fr EXCEPT
                !.toBeRemovedNames = FileNames(SelectSeq(destFileInfoList, removeIt)),
                !.toBeAddedFileNames = FileNames(SelectSeq(fr.sourceFileInfoList, addFile)),
                !.toBeAddedFolderNames = FileNames(SelectSeq(fr.sourceFileInfoList, addFolder))]))

\* the classification that does not ask isIgnoreFile about the files of the
\* source
ClassifyUpdatesIgnored(m, destFileInfoList) ==
    LET fr == Top(m)
        ignored(fileName) ==
            isIgnoreFile(fr.ignoreFileGlobs, fr.internal_folder_path, fileName)
        removeIt(destFileInfoItem) ==
            /\ ToBeRemoved(fr.deleteExtraneous,
                   findFileInfoItemByFileName(fr.sourceFileInfoList,
                                              destFileInfoItem.fileName),
                   destFileInfoItem)
            /\ ~ignored(destFileInfoItem.fileName)
        addFile(item) == ~isFolder(item)
        addFolder(item) == isFolder(item) /\ ~ignored(item.fileName)
    IN  processRemove(SetTop(m,
            [fr EXCEPT
                !.toBeRemovedNames = FileNames(SelectSeq(destFileInfoList, removeIt)),
                !.toBeAddedFileNames = FileNames(SelectSeq(fr.sourceFileInfoList, addFile)),
                !.toBeAddedFolderNames = FileNames(SelectSeq(fr.sourceFileInfoList, addFolder))]))

\* the classification that does not ask isIgnoreFile about the folders of
\* the source
ClassifyVisitsIgnored(m, destFileInfoList) ==
    LET fr == Top(m)
        ignored(fileName) ==
            isIgnoreFile(fr.ignoreFileGlobs, fr.internal_folder_path, fileName)
        removeIt(destFileInfoItem) ==
            /\ ToBeRemoved(fr.deleteExtraneous,
                   findFileInfoItemByFileName(fr.sourceFileInfoList,
                                              destFileInfoItem.fileName),
                   destFileInfoItem)
            /\ ~ignored(destFileInfoItem.fileName)
        addFile(item) == ~isFolder(item) /\ ~ignored(item.fileName)
        addFolder(item) == isFolder(item)
    IN  processRemove(SetTop(m,
            [fr EXCEPT
                !.toBeRemovedNames = FileNames(SelectSeq(destFileInfoList, removeIt)),
                !.toBeAddedFileNames = FileNames(SelectSeq(fr.sourceFileInfoList, addFile)),
                !.toBeAddedFolderNames = FileNames(SelectSeq(fr.sourceFileInfoList, addFolder))]))

\* the body of the second listing's callback: classify, then start removing
Classify(m, destFileInfoList) ==
    LET fr == Top(m)
        ignored(fileName) ==
            isIgnoreFile(fr.ignoreFileGlobs, fr.internal_folder_path, fileName)
        removeIt(destFileInfoItem) ==
            /\ ToBeRemoved(fr.deleteExtraneous,
                   findFileInfoItemByFileName(fr.sourceFileInfoList,
                                              destFileInfoItem.fileName),
                   destFileInfoItem)
            /\ ~ignored(destFileInfoItem.fileName)
        addFile(item) == ~isFolder(item) /\ ~ignored(item.fileName)
        addFolder(item) == isFolder(item) /\ ~ignored(item.fileName)
    IN  processRemove(SetTop(m,
            [fr EXCEPT
                !.toBeRemovedNames = FileNames(SelectSeq(destFileInfoList, removeIt)),
                !.toBeAddedFileNames = FileNames(SelectSeq(fr.sourceFileInfoList, addFile)),
                !.toBeAddedFolderNames = FileNames(SelectSeq(fr.sourceFileInfoList, addFolder))]))

\* the callback of the first listing without its error branch
ListSourceCallbackGoesOn(m, err, sourceFileInfoList) ==
    Issue(SetTop(m, [Top(m) EXCEPT !.sourceFileInfoList = sourceFileInfoList]),
          Op("ensureDir", "ensureDir", Top(m).destFolderPath, <<>>, <<>>, 0))

\* the callback of the first listing that starts listing the destination
\* folder without waiting for ensureDir to call back
ListSourceCallbackNoWait(m, err, sourceFileInfoList) ==
    IF err # NoErr
    THEN Callback(m, err)
    ELSE Issue(Issue(SetTop(m, [Top(m) EXCEPT !.sourceFileInfoList = sourceFileInfoList]),
                     Op("ensureDir", "ensureDir", Top(m).destFolderPath, <<>>, <<>>, 0)),
               Op("list", "listDest", Top(m).destFolderPath, <<>>, <<>>, 0))

\* callbacks of the three operations that open an invocation
ListSourceCallback(m, err, sourceFileInfoList) ==
    IF err # NoErr
    THEN Callback(m, err)
    ELSE Issue(SetTop(m, [Top(m) EXCEPT !.sourceFileInfoList = sourceFileInfoList]),
               Op("ensureDir", "ensureDir", Top(m).destFolderPath, <<>>, <<>>, 0))

EnsureDirCallback(m, err) ==
    IF err # NoErr
    THEN Callback(m, err)
    ELSE Issue(m, Op("list", "listDest", Top(m).destFolderPath, <<>>, <<>>, 0))

ListDestCallback(m, err, destFileInfoList) ==
    IF err # NoErr
    THEN Callback(m, err)
    ELSE Classify(m, destFileInfoList)

\* callbacks inside _updateFile
processCopyOrOverwriteFile(m) ==
    Issue(m, Op("copy", "copy", m.inflight.destFilePath,
                m.inflight.sourceFilePath, m.inflight.destFilePath,
                m.inflight.sourceFileHash))

CopyCallback(m, err) ==
    IF err # NoErr
    THEN UpdateFileCallback(m, err)
    ELSE UpdateFileCallback(m, NoErr)

HashSourceCallback(m, err, sourceFileHash) ==
    IF err # NoErr
    THEN UpdateFileCallback(m, err)
    ELSE Issue(m, Op("exists", "exists", m.inflight.destFilePath,
                     m.inflight.sourceFilePath, m.inflight.destFilePath,
                     sourceFileHash))

HashDestOp(m) ==
    Op("hashFile", "hashDest", m.inflight.destFilePath,
       m.inflight.sourceFilePath, m.inflight.destFilePath,
       m.inflight.sourceFileHash)

\* the existence callback that takes an existing file for up to date
ExistsCallbackSkipsExisting(m, err, isExists) ==
    IF err # NoErr
    THEN UpdateFileCallback(m, err)
    ELSE IF ~isExists
         THEN processCopyOrOverwriteFile(m)
         ELSE UpdateFileCallback(m, NoErr)

\* the existence callback that overwrites without comparing digests
ExistsCallbackOverwrites(m, err, isExists) ==
    IF err # NoErr
    THEN UpdateFileCallback(m, err)
    ELSE processCopyOrOverwriteFile(m)

ExistsCallback(m, err, isExists) ==
    IF err # NoErr
    THEN UpdateFileCallback(m, err)
    ELSE IF ~isExists
         THEN processCopyOrOverwriteFile(m)
         ELSE Issue(m, HashDestOp(m))

\* the digest callback that copies whatever the digests are
HashDestCallbackAlwaysCopies(m, err, destFileHash) ==
    IF err # NoErr
    THEN UpdateFileCallback(m, err)
    ELSE processCopyOrOverwriteFile(m)

\* the digest callback that never overwrites
HashDestCallbackKeeps(m, err, destFileHash) ==
    IF err # NoErr
    THEN UpdateFileCallback(m, err)
    ELSE UpdateFileCallback(m, NoErr)

\* the digest callback with the comparison turned round
HashDestCallbackInverted(m, err, destFileHash) ==
    IF err # NoErr
    THEN UpdateFileCallback(m, err)
    ELSE IF m.inflight.sourceFileHash # destFileHash
         THEN UpdateFileCallback(m, NoErr)
         ELSE processCopyOrOverwriteFile(m)

HashDestCallback(m, err, destFileHash) ==
    IF err # NoErr
    THEN UpdateFileCallback(m, err)
    ELSE IF m.inflight.sourceFileHash = destFileHash
         THEN UpdateFileCallback(m, NoErr)
         ELSE processCopyOrOverwriteFile(m)

\* sync as its doc comment has it: into destFolderPath + basename(source)
syncIntoNamedFolder(m, sourceFolderPath, destFolderPath, deleteExtraneous, ignoreFileGlobs) ==
    SyncFolder(m, Frame(sourceFolderPath,
                        PathJoin(destFolderPath, Last(sourceFolderPath)),
                        deleteExtraneous, ignoreFileGlobs, <<SLASH>>))

\* FolderSync.sync(sourceFolderPath, destFolderPath, deleteExtraneous,
\* ignoreFileGlobs, callback)
sync(m, sourceFolderPath, destFolderPath, deleteExtraneous, ignoreFileGlobs) ==
    SyncFolder(m, Frame(sourceFolderPath, destFolderPath, deleteExtraneous,
                        ignoreFileGlobs, <<SLASH>>))

----------------------------------------------------------------------------
(* Bounds and the initial filesystems                                       *)

\* entries of the initial source tree and destination tree, taken together
MaxEntries == 3

Names == {s_dir3, s_a_txt}

\* file contents, by their SHA-256 digest
Hashes == {1, 2}

IgnoreLists ==
    {Undefined, Globs(<<p_dir3>>), Globs(<<p_star_txt, p_slash_dir3>>)}

EmptyTree == [rel \in {} |-> Folder]

AddEntry(tree, rel, e) ==
    [q \in DOMAIN tree \cup {rel} |-> IF q = rel THEN e ELSE tree[q]]

\* where a tree can take one more entry: in the root or in one of its folders
Slots(tree) ==
    {Append(d, n) :
        d \in {<<>>} \cup {q \in DOMAIN tree : tree[q].kind = FolderInfo},
        n \in Names} \ DOMAIN tree

\* the trees of exactly k entries whose files have a hash in hs
RECURSIVE TreesOf(_, _)
TreesOf(k, hs) ==
    IF k = 0 THEN {EmptyTree}
    ELSE UNION {{AddEntry(t, rel, e) :
                    rel \in Slots(t), e \in {Folder} \cup {File(h) : h \in hs}} :
                t \in TreesOf(k - 1, hs)}

\* the filesystem that holds `tree` below the folder `root`
Graft(f, root, tree) ==
    LET g == EnsureDirFs(f, root)
    IN  [q \in DOMAIN g \cup {root \o rel : rel \in DOMAIN tree} |->
            IF q \in DOMAIN g THEN g[q]
            ELSE tree[SubSeq(q, Len(root) + 1, Len(q))]]

EmptyFs == [q \in {} |-> Folder]

\* the source folder exists; the destination folder exists with any tree in
\* it, or is missing, alone or together with the folder it lies in
InitialFs ==
    UNION {LET srcs == {Graft(EmptyFs, sourceRoot, t) : t \in TreesOf(i, {1})}
           IN  UNION {UNION {{Graft(f, destRoot, t) : t \in TreesOf(j, Hashes)} :
                             j \in 0..(MaxEntries - i)}
                      \cup {f, EnsureDirFs(f, Parent(destRoot))} : f \in srcs} :
           i \in 0..MaxEntries}

Source(f) == Subtree(f, sourceRoot)
Dest(f) == Subtree(f, destRoot)

----------------------------------------------------------------------------
(* The state machine                                                        *)

Machine == [stack |-> stack, inflight |-> inflight, cbCalls |-> cbCalls,
            issued |-> issued]

Idle == stack = <<>> /\ inflight = NoOp

NoQuery == [internal_folder_path |-> <<>>, fileName |-> <<>>, kind |-> FileInfo,
            ignoreFileGlobs |-> Undefined, verdict |-> FALSE, asked |-> FALSE]

Init ==
    /\ fs \in InitialFs
    /\ args = [deleteExtraneous |-> FALSE, ignoreFileGlobs |-> Undefined]
    /\ stack = <<>>
    /\ inflight = NoOp
    /\ cbCalls = <<>>
    /\ run = 0
    /\ issued = {}
    /\ failure = NoErr
    /\ faults = TRUE
    /\ hist = [calls |-> <<>>, fsBefore |-> fs, edits |-> {}]
    /\ query = NoQuery

\* the record kept of a call that has called back
CallRecord(m, f, fail) ==
    [args |-> args, result |-> m.cbCalls, fsBefore |-> hist.fsBefore,
     fsAfter |-> f, issued |-> m.issued, failure |-> fail]

\* one callback has run: m is what its code left, f the filesystem after the
\* operation, err what the operation returned
Step(m, f, err, injected) ==
    LET fail == IF failure = NoErr THEN err ELSE failure
        done == m.stack = <<>> /\ m.inflight = NoOp
    IN  /\ fs' = f
        /\ stack' = m.stack
        /\ inflight' = m.inflight
        /\ cbCalls' = m.cbCalls
        /\ issued' = m.issued
        /\ failure' = fail
        /\ faults' = (faults /\ ~injected /\ ~done)
        /\ hist' = IF done
                   THEN [hist EXCEPT !.calls = Append(@, CallRecord(m, f, fail))]
                   ELSE hist
        /\ UNCHANGED <<args, run, query>>

Injections == IF faults THEN {FALSE, TRUE} ELSE {FALSE}

\* what the operation returns: the failure the environment causes, or the
\* failure the filesystem state implies, or none
Outcome(injected, type, natural) ==
    IF injected THEN Err(type, inflight.path) ELSE natural

\* a caller calls sync(sourceRoot, destRoot, deleteExtraneous, ignoreFileGlobs)
CallSync(deleteExtraneous, ignoreFileGlobs) ==
    /\ Idle
    /\ LET m == sync([Machine EXCEPT !.cbCalls = <<>>, !.issued = {}],
                     sourceRoot, destRoot, deleteExtraneous, ignoreFileGlobs)
       IN  /\ stack' = m.stack
           /\ inflight' = m.inflight
           /\ cbCalls' = m.cbCalls
           /\ issued' = m.issued
    /\ args' = [deleteExtraneous |-> deleteExtraneous,
                ignoreFileGlobs |-> ignoreFileGlobs]
    /\ run' = run + 1
    /\ failure' = NoErr
    /\ hist' = [hist EXCEPT !.fsBefore = fs]
    /\ UNCHANGED <<fs, faults, query>>

ListSourceDone ==
    /\ inflight.step = "listSource"
    /\ \E injected \in Injections :
          LET err == Outcome(injected, "ListingError", ListErr(fs, inflight.path))
          IN  IF err # NoErr
              THEN Step(ListSourceCallback(Machine, err, <<>>), fs, err, injected)
              ELSE \E list \in Orders(Entries(fs, inflight.path)) :
                      Step(ListSourceCallback(Machine, err, list), fs, err, injected)

EnsureDirDone ==
    /\ inflight.step = "ensureDir"
    /\ \E injected \in Injections :
          LET err == Outcome(injected, "DirectoryCreationError",
                             EnsureDirErr(fs, inflight.path))
          IN  Step(EnsureDirCallback(Machine, err),
                   IF err # NoErr THEN fs ELSE EnsureDirFs(fs, inflight.path),
                   err, injected)

ListDestDone ==
    /\ inflight.step = "listDest"
    /\ \E injected \in Injections :
          LET err == Outcome(injected, "ListingError", ListErr(fs, inflight.path))
          IN  IF err # NoErr
              THEN Step(ListDestCallback(Machine, err, <<>>), fs, err, injected)
              ELSE \E list \in Orders(Entries(fs, inflight.path)) :
                      Step(ListDestCallback(Machine, err, list), fs, err, injected)

RemoveDone ==
    /\ inflight.step = "remove"
    /\ \E injected \in Injections :
          LET err == Outcome(injected, "RemovalError", NoErr)
          IN  Step(RemoveCallback(Machine, err),
                   IF err # NoErr THEN fs ELSE RemoveFs(fs, inflight.path),
                   err, injected)

HashSourceDone ==
    /\ inflight.step = "hashSource"
    /\ \E injected \in Injections :
          LET err == Outcome(injected, "HashingError", HashErr(fs, inflight.path))
          IN  Step(HashSourceCallback(Machine, err,
                       IF err # NoErr THEN 0 ELSE HashFile(fs, inflight.path)),
                   fs, err, injected)

ExistsDone ==
    /\ inflight.step = "exists"
    /\ \E injected \in Injections :
          LET err == Outcome(injected, "ExistenceCheckError", NoErr)
          IN  Step(ExistsCallback(Machine, err, Exists(fs, inflight.path)),
                   fs, err, injected)

HashDestDone ==
    /\ inflight.step = "hashDest"
    /\ \E injected \in Injections :
          LET err == Outcome(injected, "HashingError", HashErr(fs, inflight.path))
          IN  Step(HashDestCallback(Machine, err,
                       IF err # NoErr THEN 0 ELSE HashFile(fs, inflight.path)),
                   fs, err, injected)

CopyDone ==
    /\ inflight.step = "copy"
    /\ \E injected \in Injections :
          LET err == Outcome(injected, "CopyError",
                             CopyErr(fs, inflight.sourceFilePath, inflight.destFilePath))
          IN  Step(CopyCallback(Machine, err),
                   IF err # NoErr THEN fs
                   ELSE CopyFs(fs, inflight.sourceFilePath, inflight.destFilePath),
                   err, injected)

\* the first call, with any arguments
FirstCall ==
    /\ run = 0
    /\ \E de \in BOOLEAN, ig \in IgnoreLists : CallSync(de, ig)

\* the call repeated with the same arguments
Recall ==
    /\ run = 1
    /\ Len(hist.calls) = 1
    /\ CallSync(args.deleteExtraneous, args.ignoreFileGlobs)

Next ==
    \/ FirstCall
    \/ Recall
    \/ ListSourceDone
    \/ EnsureDirDone
    \/ ListDestDone
    \/ RemoveDone
    \/ HashSourceDone
    \/ ExistsDone
    \/ HashDestDone
    \/ CopyDone

Spec == Init /\ [][Next]_vars

\* the collaborator that holds the operation in flight calls back
OperationDone ==
    \/ ListSourceDone
    \/ EnsureDirDone
    \/ ListDestDone
    \/ RemoveDone
    \/ HashSourceDone
    \/ ExistsDone
    \/ HashDestDone
    \/ CopyDone

\* entries of the two initial trees, taken together, where the question is
\* whether a call ends
LiveEntries == 2

InitLive ==
    /\ Init
    /\ Cardinality(DOMAIN Source(fs)) + Cardinality(DOMAIN Dest(fs)) <= LiveEntries

NextLive ==
    \/ FirstCall
    \/ ListSourceDone
    \/ EnsureDirDone
    \/ ListDestDone
    \/ RemoveDone
    \/ HashSourceDone
    \/ ExistsDone
    \/ HashDestDone
    \/ CopyDone

\* one call, with collaborators that always call back, with a result or
\* with an error; the caller is free to call or not
SpecLive == InitLive /\ [][NextLive]_vars /\ WF_vars(OperationDone)

----------------------------------------------------------------------------
(* A call that succeeded, one edit of a tree, and the calls that follow it  *)
(* (the scenarios of 'Test source content change', 'Test target content    *)
(* change' and 'Test target folder add/remove files').  No operation fails. *)

InitEdit ==
    /\ fs \in InitialFs
    /\ args = [deleteExtraneous |-> FALSE, ignoreFileGlobs |-> Undefined]
    /\ stack = <<>>
    /\ inflight = NoOp
    /\ cbCalls = <<>>
    /\ run = 0
    /\ issued = {}
    /\ failure = NoErr
    /\ faults = FALSE
    /\ hist = [calls |-> <<>>, fsBefore |-> fs, edits |-> {}]
    /\ query = NoQuery

MayEdit ==
    /\ Idle
    /\ run = 1
    /\ Len(hist.calls) = 1
    /\ hist.calls[1].result = <<NoErr>>
    /\ hist.edits = {}

Edit(kind, path, f) ==
    /\ fs' = f
    /\ hist' = [hist EXCEPT !.edits = @ \cup {[kind |-> kind, path |-> path]}]
    /\ UNCHANGED <<args, stack, inflight, cbCalls, run, issued, failure, faults, query>>

\* PromiseTextFile.write(sourceFilePath, ...): new bytes in a source file
EditSourceFile ==
    /\ MayEdit
    /\ \E p \in DOMAIN fs, h \in Hashes :
          /\ IsPrefix(sourceRoot, p) /\ IsFileAt(fs, p) /\ fs[p].hash # h
          /\ Edit("editSource", p, [fs EXCEPT ![p] = File(h)])

\* PromiseTextFile.write(targetFilePath, ...): new bytes in a destination file
EditDestFile ==
    /\ MayEdit
    /\ \E p \in DOMAIN fs, h \in Hashes :
          /\ IsPrefix(destRoot, p) /\ IsFileAt(fs, p) /\ fs[p].hash # h
          /\ Edit("editDest", p, [fs EXCEPT ![p] = File(h)])

\* a new file in a folder of the destination, at a place where the source
\* has nothing
AddDestFile ==
    /\ MayEdit
    /\ \E d \in DOMAIN fs, n \in Names, h \in Hashes :
          LET p == Append(d, n)
          IN  /\ IsPrefix(destRoot, d) /\ IsFolderAt(fs, d)
              /\ p \notin DOMAIN fs
              /\ sourceRoot \o SubSeq(p, Len(destRoot) + 1, Len(p)) \notin DOMAIN fs
              /\ Edit("addDest", p, AddEntry(fs, p, File(h)))

Edited(kind) == \E e \in hist.edits : e.kind = kind

\* after new bytes: the same call again
Resync ==
    /\ run = 1
    /\ Edited("editSource") \/ Edited("editDest")
    /\ CallSync(args.deleteExtraneous, args.ignoreFileGlobs)

\* after a new destination file: a call without deleteExtraneous ...
SyncKeeping ==
    /\ run = 1
    /\ Edited("addDest")
    /\ CallSync(FALSE, args.ignoreFileGlobs)

\* ... and then a call with it
SyncDeleting ==
    /\ run = 2
    /\ Len(hist.calls) = 2
    /\ Edited("addDest")
    /\ CallSync(TRUE, args.ignoreFileGlobs)

NextEdit ==
    \/ FirstCall
    \/ EditSourceFile
    \/ EditDestFile
    \/ AddDestFile
    \/ Resync
    \/ SyncKeeping
    \/ SyncDeleting
    \/ ListSourceDone
    \/ EnsureDirDone
    \/ ListDestDone
    \/ RemoveDone
    \/ HashSourceDone
    \/ ExistsDone
    \/ HashDestDone
    \/ CopyDone

SpecEdit == InitEdit /\ [][NextEdit]_vars

----------------------------------------------------------------------------
(* 'Test base sync': the resource folder of the tests synchronised into a   *)
(* fresh temporary folder, which exists and is empty or does not exist yet. *)

s_test1_txt == <<"t", "e", "s", "t", "1", ".", "t", "x", "t">>
s_test2_txt == <<"t", "e", "s", "t", "2", ".", "t", "x", "t">>
s_test3_md == <<"t", "e", "s", "t", "3", ".", "m", "d">>
s_test1_1_txt == <<"t", "e", "s", "t", "1", "-", "1", ".", "t", "x", "t">>
s_test1_2_md == <<"t", "e", "s", "t", "1", "-", "2", ".", "m", "d">>
s_test1_1_1_txt == <<"t", "e", "s", "t", "1", "-", "1", "-", "1", ".", "t", "x", "t">>
s_test1_1_2_txt == <<"t", "e", "s", "t", "1", "-", "1", "-", "2", ".", "t", "x", "t">>
s_test2_1_txt == <<"t", "e", "s", "t", "2", "-", "1", ".", "t", "x", "t">>

\* the eleven entries of the resource folder; every file has bytes of its own
ResourceTree ==
    (<<s_dir1>> :> Folder)
    @@ (<<s_dir1, s_dir3>> :> Folder)
    @@ (<<s_dir1, s_dir3, s_test1_1_1_txt>> :> File(1))
    @@ (<<s_dir1, s_dir3, s_test1_1_2_txt>> :> File(2))
    @@ (<<s_dir1, s_test1_1_txt>> :> File(3))
    @@ (<<s_dir1, s_test1_2_md>> :> File(4))
    @@ (<<s_dir2>> :> Folder)
    @@ (<<s_dir2, s_test2_1_txt>> :> File(5))
    @@ (<<s_test1_txt>> :> File(6))
    @@ (<<s_test2_txt>> :> File(7))
    @@ (<<s_test3_md>> :> File(8))

ResourceFs == Graft(EmptyFs, sourceRoot, ResourceTree)

InitTree ==
    /\ fs \in {ResourceFs,
                EnsureDirFs(ResourceFs, Parent(destRoot)),
                EnsureDirFs(ResourceFs, destRoot)}
    /\ args = [deleteExtraneous |-> FALSE, ignoreFileGlobs |-> Undefined]
    /\ stack = <<>>
    /\ inflight = NoOp
    /\ cbCalls = <<>>
    /\ run = 0
    /\ issued = {}
    /\ failure = NoErr
    /\ faults = FALSE
    /\ hist = [calls |-> <<>>, fsBefore |-> fs, edits |-> {}]
    /\ query = NoQuery

\* FolderSync.sync(testResourceDir, tempDir, deleteExtraneous, undefined, ...)
BaseSync ==
    /\ run = 0
    /\ \E de \in BOOLEAN : CallSync(de, Undefined)

\* the destination starts empty, so no removal and no digest of a
\* destination file is ever pending (C13_EntryPoint checks that)
NextTree ==
    \/ BaseSync
    \/ ListSourceDone
    \/ EnsureDirDone
    \/ ListDestDone
    \/ HashSourceDone
    \/ ExistsDone
    \/ CopyDone

SpecTree == InitTree /\ [][NextTree]_vars

----------------------------------------------------------------------------
(* PromiseFolderSync.sync: the promise form, one call, operations may fail  *)

Pending == [state |-> "pending", value |-> NoErr]

\* resolve() and reject(err) of the Promise executor: a settled promise
\* stays as it is
resolve(promise) ==
    IF promise.state = "pending"
    THEN [state |-> "fulfilled", value |-> NoErr]
    ELSE promise

reject(promise, err) ==
    IF promise.state = "pending"
    THEN [state |-> "rejected", value |-> err]
    ELSE promise

\* the callback that always resolves
PromiseCallbackResolves(promise, err) == resolve(promise)

\* the callback PromiseFolderSync.sync hands to FolderSync.sync
PromiseCallback(promise, err) ==
    IF err # NoErr
    THEN reject(promise, err)
    ELSE resolve(promise)

\* the promise after the callback has received `calls`, in that order
RECURSIVE Settle(_, _)
Settle(promise, calls) ==
    IF calls = <<>> THEN promise
    ELSE Settle(PromiseCallback(promise, Head(calls)), Tail(calls))

ThePromise == Settle(Pending, cbCalls)

\* PromiseFolderSync.sync(sourceFolderPath, destDirectory, deleteExtraneous,
\* ignoreFileGlobs): the executor calls FolderSync.sync
PromiseSync(m, sourceFolderPath, destDirectory, deleteExtraneous, ignoreFileGlobs) ==
    sync(m, sourceFolderPath, destDirectory, deleteExtraneous, ignoreFileGlobs)

\* a caller calls PromiseFolderSync.sync(sourceRoot, destRoot, ...)
CallPromiseSync ==
    /\ Idle
    /\ run = 0
    /\ \E deleteExtraneous \in BOOLEAN, ignoreFileGlobs \in IgnoreLists :
          /\ LET m == PromiseSync([Machine EXCEPT !.cbCalls = <<>>, !.issued = {}],
                                  sourceRoot, destRoot, deleteExtraneous,
                                  ignoreFileGlobs)
             IN  /\ stack' = m.stack
                 /\ inflight' = m.inflight
                 /\ cbCalls' = m.cbCalls
                 /\ issued' = m.issued
          /\ args' = [deleteExtraneous |-> deleteExtraneous,
                      ignoreFileGlobs |-> ignoreFileGlobs]
    /\ run' = run + 1
    /\ failure' = NoErr
    /\ hist' = [hist EXCEPT !.fsBefore = fs]
    /\ UNCHANGED <<fs, faults, query>>

NextPromise ==
    \/ CallPromiseSync
    \/ ListSourceDone
    \/ EnsureDirDone
    \/ ListDestDone
    \/ RemoveDone
    \/ HashSourceDone
    \/ ExistsDone
    \/ HashDestDone
    \/ CopyDone

SpecPromise == Init /\ [][NextPromise]_vars

----------------------------------------------------------------------------
(* isIgnoreFile on its own: one entry of one folder against one ignore list *)

\* folders above the entry asked about
MatchDepth == 2

MatchNames ==
    {s_dir1, s_dir2, s_dir3, s_doc, s_frotz, s_a, s_a_txt, s_b_md, s_dot_c_txt}

Patterns == {p_star_txt, p_dir2, p_dir3, p_slash_dir3, p_doc_frotz,
             p_slash_doc_frotz, p_frotz, p_frotz_slash}

MatchLists ==
    {Undefined, Globs(<<p_dir2, p_star_txt>>)} \cup {Globs(<<p>>) : p \in Patterns}

\* the relative path '/a/b' of the folder a/b
RECURSIVE RelString(_)
RelString(rel) ==
    IF rel = <<>> THEN <<SLASH>>
    ELSE PathJoinRel(RelString(Front(rel)), Last(rel))

MatchFolders ==
    {RelString(rel) : rel \in UNION {[1..k -> MatchNames] : k \in 0..MatchDepth}}

InitMatch ==
    /\ fs = EmptyFs
    /\ args = [deleteExtraneous |-> FALSE, ignoreFileGlobs |-> Undefined]
    /\ stack = <<>>
    /\ inflight = NoOp
    /\ cbCalls = <<>>
    /\ run = 0
    /\ issued = {}
    /\ failure = NoErr
    /\ faults = FALSE
    /\ hist = [calls |-> <<>>, fsBefore |-> fs, edits |-> {}]
    /\ query \in [internal_folder_path : MatchFolders, fileName : MatchNames,
                  kind : {FolderInfo, FileInfo},
                  ignoreFileGlobs : MatchLists, verdict : {FALSE}, asked : {FALSE}]

\* an invocation at internal_folder_path evaluates isIgnoreFile(fileName)
\* for an entry of either kind: the kind is not handed to isIgnoreFile
Ask ==
    /\ ~query.asked
    /\ query' = [query EXCEPT
                    !.verdict = isIgnoreFile(query.ignoreFileGlobs,
                                             query.internal_folder_path,
                                             query.fileName),
                    !.asked = TRUE]
    /\ UNCHANGED <<fs, args, stack, inflight, cbCalls, run, issued, failure,
                   faults, hist>>

NextMatch == Ask

SpecMatch == InitMatch /\ [][NextMatch]_vars

----------------------------------------------------------------------------
(* What one error-free _syncFolder leaves behind, computed in one go:       *)
(* list, classify, remove, update the files, then the sub-folders.          *)

RECURSIVE RemoveAll(_, _)
RemoveAll(f, paths) ==
    IF paths = {} THEN f
    ELSE LET p == CHOOSE q \in paths : TRUE
         IN  RemoveAll(RemoveFs(f, p), paths \ {p})

\* _updateFile without failures: copy unless the destination file exists
\* and has the digest of the source file
UpdateFileResult(f, sourceFilePath, destFilePath) ==
    IF Exists(f, destFilePath) /\ HashFile(f, destFilePath) = HashFile(f, sourceFilePath)
    THEN f
    ELSE CopyFs(f, sourceFilePath, destFilePath)

RECURSIVE UpdateFilesResult(_, _, _, _)
UpdateFilesResult(f, sourceFolderPath, destFolderPath, fileNames) ==
    IF fileNames = {} THEN f
    ELSE LET n == CHOOSE x \in fileNames : TRUE
         IN  UpdateFilesResult(
                 UpdateFileResult(f, PathJoin(sourceFolderPath, n),
                                  PathJoin(destFolderPath, n)),
                 sourceFolderPath, destFolderPath, fileNames \ {n})

RECURSIVE SyncFolderResult(_, _, _, _, _, _)
RECURSIVE SyncFoldersResult(_, _, _, _, _, _, _)

SyncFolderResult(f, sourceFolderPath, destFolderPath, deleteExtraneous, ignoreFileGlobs, internal_folder_path) ==
    LET ensured == EnsureDirFs(f, destFolderPath)
        sourceItems == Entries(f, sourceFolderPath)
        destItems == Entries(ensured, destFolderPath)
        ignored(n) == isIgnoreFile(ignoreFileGlobs, internal_folder_path, n)
        find(n) == IF \E e \in sourceItems : e.fileName = n
                   THEN CHOOSE e \in sourceItems : e.fileName = n
                   ELSE UndefinedItem
        toBeRemoved == {d.fileName : d \in
                          {x \in destItems :
                              /\ ToBeRemoved(deleteExtraneous, find(x.fileName), x)
                              /\ ~ignored(x.fileName)}}
        fileNames == {e.fileName : e \in
                          {x \in sourceItems : ~isFolder(x) /\ ~ignored(x.fileName)}}
        folderNames == {e.fileName : e \in
                          {x \in sourceItems : isFolder(x) /\ ~ignored(x.fileName)}}
        removed == RemoveAll(ensured, {PathJoin(destFolderPath, n) : n \in toBeRemoved})
        updated == UpdateFilesResult(removed, sourceFolderPath, destFolderPath, fileNames)
    IN  SyncFoldersResult(updated, sourceFolderPath, destFolderPath, deleteExtraneous,
                          ignoreFileGlobs, internal_folder_path, folderNames)

SyncFoldersResult(f, sourceFolderPath, destFolderPath, deleteExtraneous, ignoreFileGlobs, internal_folder_path, folderNames) ==
    IF folderNames = {} THEN f
    ELSE LET n == CHOOSE x \in folderNames : TRUE
         IN  SyncFoldersResult(
                 SyncFolderResult(f, PathJoin(sourceFolderPath, n),
                                  PathJoin(destFolderPath, n), deleteExtraneous,
                                  ignoreFileGlobs, PathJoinRel(internal_folder_path, n)),
                 sourceFolderPath, destFolderPath, deleteExtraneous,
                 ignoreFileGlobs, internal_folder_path, folderNames \ {n})

\* sync(sourceRoot, destRoot, ...) without failures, from filesystem f
SyncResult(f, a) ==
    SyncFolderResult(f, sourceRoot, destRoot, a.deleteExtraneous,
                     a.ignoreFileGlobs, <<SLASH>>)

----------------------------------------------------------------------------
(* Vocabulary of the properties                                             *)

\* the entry at rel, or a folder above it, matches an ignore pattern
Pruned(ignoreFileGlobs, rel) ==
    \E k \in 1..Len(rel) :
        isIgnoreFile(ignoreFileGlobs, RelString(SubSeq(rel, 1, k - 1)), rel[k])

Kept(ignoreFileGlobs, tree) ==
    {rel \in DOMAIN tree : ~Pruned(ignoreFileGlobs, rel)}

Succeeded(call) == call.result = <<NoErr>>
Failed(call) == Len(call.result) = 1 /\ call.result[1] # NoErr

LastCall == hist.calls[Len(hist.calls)]
Completed == Idle /\ run > 0 /\ Len(hist.calls) = run

Writes(ops) == {o \in ops : o.op \in {"remove", "copy", "ensureDir"}}
Copies(ops) == {o \in ops : o.op = "copy"}
Removes(ops) == {o \in ops : o.op = "remove"}

----------------------------------------------------------------------------
(* C1 *)

\* the non-ignored source paths are in the destination, with the same kind
\* and digest
Mirrored(call) ==
    LET src == Source(call.fsAfter)
        dst == Dest(call.fsAfter)
    IN  \A rel \in Kept(call.args.ignoreFileGlobs, src) :
            rel \in DOMAIN dst /\ dst[rel] = src[rel]

SamePaths(call) ==
    Kept(call.args.ignoreFileGlobs, Dest(call.fsAfter))
        = Kept(call.args.ignoreFileGlobs, Source(call.fsAfter))

\* C1 as stated: after any successful sync, from any initial destination
\* tree, the non-ignored relative paths under the destination are exactly
\* those under the source, and every mirrored file has the digest of its
\* source file.
C1_MirroringFromAnyDestination ==
    Completed /\ Succeeded(LastCall) => SamePaths(LastCall) /\ Mirrored(LastCall)

\* C1 (amended): after any successful sync every non-ignored source path is
\* in the destination with the same kind and digest; with deleteExtraneous
\* the non-ignored paths of the two trees are equal, and without it the
\* destination holds besides them only paths it held before the call.
C1_Mirroring ==
    Completed /\ Succeeded(LastCall) =>
        /\ Mirrored(LastCall)
        /\ LastCall.args.deleteExtraneous => SamePaths(LastCall)
        /\ Kept(LastCall.args.ignoreFileGlobs, Dest(LastCall.fsAfter))
              \subseteq (Kept(LastCall.args.ignoreFileGlobs, Source(LastCall.fsAfter))
                         \cup DOMAIN Dest(LastCall.fsBefore))

\* a successful deleteExtraneous call that removed something and copied a
\* file into a sub-folder
C1_Witness ==
    /\ Completed /\ Succeeded(LastCall)
    /\ LastCall.args.deleteExtraneous
    /\ Removes(issued) # {}
    /\ \E o \in Copies(issued) : Len(o.path) > Len(destRoot) + 1

----------------------------------------------------------------------------
(* C2 *)

\* C2: in every execution of sync, successful or aborted, every remove,
\* copy and directory creation targets a path under the destination root,
\* and the source tree stays what it was when the call began.
C2_SourceNeverModified ==
    /\ \A o \in Writes(issued) : IsPrefix(destRoot, o.path)
    /\ Source(fs) = Source(hist.fsBefore)

\* a call that removed and copied, and failed afterwards
C2_Witness ==
    /\ Completed /\ Failed(LastCall)
    /\ Removes(issued) # {} /\ Copies(issued) # {}
    /\ Dest(fs) # Dest(hist.fsBefore)

----------------------------------------------------------------------------
(* C3 *)

\* C3: a second sync with the same arguments, right after a successful
\* first one, issues no copy and no remove and leaves the destination as
\* the first one left it.
C3_Idempotence ==
    run = 2 /\ Succeeded(hist.calls[1]) =>
        /\ Copies(issued) = {} /\ Removes(issued) = {}
        /\ fs = hist.calls[1].fsAfter

\* two successful calls, the first of which copied and removed
C3_Witness ==
    /\ Len(hist.calls) = 2
    /\ Succeeded(hist.calls[1]) /\ Succeeded(hist.calls[2])
    /\ Copies(hist.calls[1].issued) # {}
    /\ Removes(hist.calls[1].issued) # {}

----------------------------------------------------------------------------
(* C7 *)

\* C7: the first error any operation returns ends the call at once: no
\* operation is in flight or pending after it, and the caller's callback
\* has received exactly that error, once.
C7_FailFast ==
    failure # NoErr =>
        /\ Idle
        /\ cbCalls = <<failure>>
        /\ LastCall.issued = issued

\* an operation of a nested invocation failed while work was left
C7_Witness ==
    /\ failure # NoErr
    /\ Len(failure.path) > Len(destRoot) + 1
    /\ failure.type = "ExistenceCheckError"

----------------------------------------------------------------------------
(* C8 *)

\* C8: when a sync aborts with an error after any prefix of its operations,
\* an error-free sync with the same arguments on what it left yields the
\* destination that an error-free sync from the original destination yields.
C8_RecoveryByRerun ==
    Idle =>
        /\ Len(hist.calls) >= 1 /\ Succeeded(hist.calls[1]) =>
              hist.calls[1].fsAfter
                  = SyncResult(hist.calls[1].fsBefore, hist.calls[1].args)
        /\ Len(hist.calls) = 2 /\ Failed(hist.calls[1]) /\ Succeeded(hist.calls[2]) =>
              hist.calls[2].fsAfter
                  = SyncResult(hist.calls[1].fsBefore, hist.calls[1].args)

\* the first call failed half-way, having changed the destination, and the
\* second call finished the work
C8_Witness ==
    /\ Len(hist.calls) = 2
    /\ Failed(hist.calls[1]) /\ Succeeded(hist.calls[2])
    /\ hist.calls[1].fsAfter # hist.calls[1].fsBefore
    /\ hist.calls[2].fsAfter # hist.calls[1].fsAfter

----------------------------------------------------------------------------
(* C4, C5, C6: under SpecEdit *)

TheEdit == CHOOSE e \in hist.edits : TRUE
RelOf(root, p) == SubSeq(p, Len(root) + 1, Len(p))

\* the file added to the destination is still there, as it was added
AddedFileIsThere(f) ==
    /\ TheEdit.path \in DOMAIN f
    /\ f[TheEdit.path] = hist.calls[2].fsBefore[TheEdit.path]

SameDigests(f, rels) ==
    \A rel \in rels :
        IsFileAt(f, sourceRoot \o rel) /\ IsFileAt(f, destRoot \o rel) =>
            f[destRoot \o rel].hash = f[sourceRoot \o rel].hash

\* no destination entry but the one at rel differs between f and g
OthersUntouched(f, g, rel) ==
    /\ DOMAIN Dest(f) \ {rel} = DOMAIN Dest(g) \ {rel}
    /\ \A q \in DOMAIN Dest(f) \ {rel} : Dest(f)[q] = Dest(g)[q]

\* C5 as stated: after a completed sync, new bytes in one source file and a
\* second sync: a copy is issued for that file and for no other, nothing is
\* removed, no other destination entry changes, and afterwards every
\* destination file has the digest of its source file.
C5_ContentDrivenUpdate ==
    Idle /\ Edited("editSource") /\ Len(hist.calls) = 2 =>
        LET rel == RelOf(sourceRoot, TheEdit.path)
            call == hist.calls[2]
        IN  /\ Copies(call.issued) = {[op |-> "copy", path |-> destRoot \o rel]}
            /\ Removes(call.issued) = {}
            /\ OthersUntouched(call.fsBefore, call.fsAfter, rel)
            /\ SameDigests(call.fsAfter, DOMAIN Dest(call.fsAfter))

\* C5 (amended): ... new bytes in one source file that no ignore pattern
\* excludes: a copy is issued for that file and for no other; when the file
\* is excluded no copy is issued at all.  Nothing is removed, no other
\* destination entry changes, and afterwards every destination file that
\* is not excluded has the digest of its source file.
C5_ContentDrivenUpdateOfKeptFile ==
    Idle /\ Edited("editSource") /\ Len(hist.calls) = 2 =>
        LET rel == RelOf(sourceRoot, TheEdit.path)
            call == hist.calls[2]
            ig == call.args.ignoreFileGlobs
        IN  /\ Copies(call.issued) =
                  IF Pruned(ig, rel) THEN {}
                  ELSE {[op |-> "copy", path |-> destRoot \o rel]}
            /\ Removes(call.issued) = {}
            /\ OthersUntouched(call.fsBefore, call.fsAfter, rel)
            /\ SameDigests(call.fsAfter, Kept(ig, Dest(call.fsAfter)))

\* one of two mirrored source files got new bytes and the second call
\* brought them to the destination
C5_Witness ==
    /\ Idle /\ Edited("editSource") /\ Len(hist.calls) = 2
    /\ LET rel == RelOf(sourceRoot, TheEdit.path)
           call == hist.calls[2]
       IN  /\ Copies(call.issued) = {[op |-> "copy", path |-> destRoot \o rel]}
           /\ call.fsAfter[destRoot \o rel] = call.fsAfter[TheEdit.path]
           /\ \E q \in DOMAIN Dest(call.fsAfter) \ {rel} :
                 IsFileAt(call.fsAfter, destRoot \o q)

\* C6: new bytes in a destination file whose source file is not excluded by
\* the ignore patterns, the source left alone: the next successful sync
\* makes the destination file equal to the source file again, at any depth.
C6_DriftCorrection ==
    Idle /\ Edited("editDest") /\ Len(hist.calls) = 2 /\ Succeeded(hist.calls[2]) =>
        LET rel == RelOf(destRoot, TheEdit.path)
            call == hist.calls[2]
        IN  IsFileAt(call.fsBefore, sourceRoot \o rel)
              /\ ~Pruned(call.args.ignoreFileGlobs, rel) =>
                  /\ TheEdit.path \in DOMAIN call.fsAfter
                  /\ call.fsAfter[TheEdit.path] = call.fsAfter[sourceRoot \o rel]
                  /\ Source(call.fsAfter) = Source(call.fsBefore)

\* a destination file in a sub-folder drifted from its source file and the
\* second call restored it
C6_Witness ==
    /\ Idle /\ Edited("editDest") /\ Len(hist.calls) = 2 /\ Succeeded(hist.calls[2])
    /\ LET rel == RelOf(destRoot, TheEdit.path)
           call == hist.calls[2]
       IN  /\ Len(rel) > 1
           /\ IsFileAt(call.fsBefore, sourceRoot \o rel)
           /\ call.fsBefore[TheEdit.path] # call.fsBefore[sourceRoot \o rel]
           /\ call.fsAfter[TheEdit.path] = call.fsAfter[sourceRoot \o rel]

----------------------------------------------------------------------------
(* C9, C10: under SpecMatch *)

NoSlash(pattern) == \A i \in 1..Len(pattern) : pattern[i] # SLASH
EndsWith(str, suffix) ==
    Len(str) >= Len(suffix)
        /\ SubSeq(str, Len(str) - Len(suffix) + 1, Len(str)) = suffix

AskedOne(pattern) == query.asked /\ query.ignoreFileGlobs = Globs(<<pattern>>)

C10_AnchoredPatterns ==
    /\ AskedOne(p_slash_dir3) =>
          (query.verdict <=>
              query.internal_folder_path = <<SLASH>> /\ query.fileName = s_dir3)
    /\ AskedOne(p_doc_frotz) =>
          (query.verdict <=>
              /\ query.internal_folder_path = <<SLASH>> \o s_doc
              /\ query.fileName = s_frotz)

----------------------------------------------------------------------------
(* C11: under SpecMatch *)

\* C11: a pattern that ends in '/' matches directories only: 'frotz/'
\* ignores a directory named frotz in whatever folder it lies, and ignores
\* no file named frotz (and no entry of another name).
C11_TrailingSlashPatterns ==
    AskedOne(p_frotz_slash) =>
        (query.verdict <=> query.fileName = s_frotz /\ query.kind = FolderInfo)

----------------------------------------------------------------------------
(* C12, C13: under Spec *)

\* what is mirrored below the folder `root` of the filesystem of a call
MirroredBelow(call, root) ==
    \A rel \in Kept(call.args.ignoreFileGlobs, Source(call.fsAfter)) :
        /\ root \o rel \in DOMAIN call.fsAfter
        /\ call.fsAfter[root \o rel] = call.fsAfter[sourceRoot \o rel]

\* C12: destFolderPath is the container and does not include the source
\* folder's name: after a successful sync the mirrored content lies below
\* destFolderPath joined with basename(sourceFolderPath).
C12_DestinationLocation ==
    Completed /\ Succeeded(LastCall) =>
        MirroredBelow(LastCall, PathJoin(destRoot, Last(sourceRoot)))

----------------------------------------------------------------------------
(* C14: under SpecPromise *)

\* C14: the promise form does what the callback form does: it starts
\* FolderSync.sync with the arguments it was given, so the operations are
\* those of the callback form and a call without error leaves what the
\* callback form leaves; the promise is pending while the call runs and
\* settles once: fulfilled when the callback form ends without error,
\* rejected with the same error value otherwise.
C14_PromiseForm ==
    /\ stack # <<>> =>
          /\ stack[1].sourceFolderPath = sourceRoot
          /\ stack[1].destFolderPath = destRoot
          /\ stack[1].deleteExtraneous = args.deleteExtraneous
          /\ stack[1].ignoreFileGlobs = args.ignoreFileGlobs
    /\ ~Idle => ThePromise = Pending
    /\ Completed =>
          /\ Len(cbCalls) = 1
          /\ IF failure = NoErr
             THEN /\ ThePromise = [state |-> "fulfilled", value |-> NoErr]
                  /\ fs = SyncResult(hist.fsBefore, args)
             ELSE ThePromise = [state |-> "rejected", value |-> failure]

\* a promise rejected with the error of a copy, after the call had removed
\* something
C14_Witness ==
    /\ Completed
    /\ ThePromise.state = "rejected"
    /\ ThePromise.value.type = "CopyError"
    /\ Removes(issued) # {}

----------------------------------------------------------------------------
(* C15: under Spec *)

\* the root-relative path an operation is about, in the source or in the
\* destination
OpRel(o) ==
    IF IsPrefix(destRoot, o.path)
    THEN RelOf(destRoot, o.path)
    ELSE RelOf(sourceRoot, o.path)

\* what an operation at or below the folder `dir` is to the visit of `dir`:
\* 0 opening the visit (listing and ensuring dir itself), 1 a removal of an
\* entry of dir, 2 an operation of the update of a file of dir, 3 an
\* operation of the visit of a sub-folder of dir, at any depth
Phase(o, dir) ==
    IF OpRel(o) = dir THEN 0
    ELSE IF Len(OpRel(o)) > Len(dir) + 1 THEN 3
    ELSE IF o.op = "remove" THEN 1
    ELSE IF o.op \in {"hashFile", "exists", "copy"} THEN 2
    ELSE 3

\* C15: within the visit of one folder every removal is over before the
\* first file update starts, and every file update is over before the first
\* visit of a sub-folder starts: operations are issued one at a time, and
\* when one is issued, no operation of a later phase of the same folder's
\* visit has been issued before it in this call.
C15_PhaseOrdering ==
    inflight # NoOp =>
        \A o \in issued :
            \A k \in 0..Len(OpRel(inflight)) :
                LET dir == SubSeq(OpRel(inflight), 1, k)
                IN  IsPrefix(dir, OpRel(o)) =>
                        Phase(o, dir) <= Phase(inflight, dir)

\* a sub-folder of the root is being listed after a removal and a copy in
\* the root
C15_Witness ==
    /\ inflight.step = "listSource"
    /\ Len(inflight.path) = Len(sourceRoot) + 1
    /\ \E o \in Removes(issued) : Len(OpRel(o)) = 1
    /\ \E o \in Copies(issued) : Len(OpRel(o)) = 1

----------------------------------------------------------------------------
(* C16: under Spec *)

\* C16: when a copy is issued, its destination path is absent or holds a
\* file, never a folder; when the destination folder of a sub-folder visit
\* is ensured, that path is absent or holds a folder, never a file; with
\* and without deleteExtraneous.
C16_NoWrongKindTarget ==
    /\ inflight.op = "copy" => ~IsFolderAt(fs, inflight.path)
    /\ inflight.op = "ensureDir" /\ Len(stack) > 1 => ~IsFileAt(fs, inflight.path)

\* without deleteExtraneous: a copy to a path where the destination had a
\* folder, or the folder of a sub-folder visit ensured where it had a file
C16_Witness ==
    /\ ~args.deleteExtraneous
    /\ \/ inflight.op = "copy" /\ IsFolderAt(hist.fsBefore, inflight.path)
       \/ /\ inflight.op = "ensureDir" /\ Len(stack) > 1
          /\ IsFileAt(hist.fsBefore, inflight.path)

----------------------------------------------------------------------------
(* C17, C18: under Spec *)

\* the folders visited so far in this call: those whose destination folder
\* has been listed
Visited ==
    {RelOf(destRoot, o.path) :
        o \in {x \in issued : x.op = "list" /\ IsPrefix(destRoot, x.path)}}

\* the names a removal was issued for in the visit of the folder rel
RemovedIn(rel) ==
    {Last(o.path) : o \in {x \in Removes(issued) : Parent(x.path) = destRoot \o rel}}

\* the entries of the destination folder rel, as the call found them, that
\* are not ignored and have a source entry of the other kind or, with
\* deleteExtraneous, no source entry of their name
Marked(f, deleteExtraneous, ignoreFileGlobs, rel) ==
    {n \in {e.fileName : e \in Entries(f, destRoot \o rel)} :
        /\ ~isIgnoreFile(ignoreFileGlobs, RelString(rel), n)
        /\ IF (sourceRoot \o rel) \o <<n>> \in DOMAIN f
           THEN f[(sourceRoot \o rel) \o <<n>>].kind # f[(destRoot \o rel) \o <<n>>].kind
           ELSE deleteExtraneous}

\* every removal issued is of a marked entry of a visited folder, and a
\* call that succeeded has removed every marked entry of every folder it
\* visited
RemovalsAsMarked ==
    /\ \A o \in Removes(issued) :
          /\ IsPrefix(destRoot, o.path)
          /\ Parent(OpRel(o)) \in Visited
          /\ Last(o.path) \in Marked(hist.fsBefore, args.deleteExtraneous,
                                     args.ignoreFileGlobs, Parent(OpRel(o)))
    /\ Completed /\ Succeeded(LastCall) =>
          \A rel \in Visited :
              RemovedIn(rel) = Marked(hist.fsBefore, args.deleteExtraneous,
                                      args.ignoreFileGlobs, rel)

\* C17: without deleteExtraneous, in the visit of every folder the entries
\* removed are exactly the entries of the destination folder that are not
\* ignored and have a source entry of their name and of the other kind; no
\* removal is issued for an entry that has no source entry of its name.
C17_RemovalsKeepingExtraneous ==
    run > 0 /\ ~args.deleteExtraneous =>
        /\ RemovalsAsMarked
        /\ \A o \in Removes(issued) : sourceRoot \o OpRel(o) \in DOMAIN fs

\* a successful call without deleteExtraneous that removed an entry of the
\* other kind and left an entry that the source does not have
C17_Witness ==
    /\ Completed /\ Succeeded(LastCall) /\ ~args.deleteExtraneous
    /\ Removes(issued) # {}
    /\ \E rel \in DOMAIN Dest(fs) :
          /\ rel \notin DOMAIN Source(fs)
          /\ Parent(rel) \in Visited

\* C18: with deleteExtraneous, in the visit of every folder the entries
\* removed are exactly the entries of the destination folder that are not
\* ignored and have no source entry of their name or one of the other
\* kind; no removal is issued for an entry that matches an ignore pattern,
\* extraneous or not.
C18_RemovalsDeletingExtraneous ==
    run > 0 /\ args.deleteExtraneous =>
        /\ RemovalsAsMarked
        /\ \A o \in Removes(issued) :
              ~isIgnoreFile(args.ignoreFileGlobs, RelString(Parent(OpRel(o))),
                            Last(o.path))

\* a successful call with deleteExtraneous that removed an entry the source
\* does not have and left another one, which matches an ignore pattern
C18_Witness ==
    /\ Completed /\ Succeeded(LastCall) /\ args.deleteExtraneous
    /\ \E o \in Removes(issued) : sourceRoot \o OpRel(o) \notin DOMAIN fs
    /\ \E rel \in DOMAIN Dest(fs) :
          /\ rel \notin DOMAIN Source(fs)
          /\ Parent(rel) \in Visited
          /\ isIgnoreFile(args.ignoreFileGlobs, RelString(Parent(rel)), Last(rel))

----------------------------------------------------------------------------
(* C19: under Spec *)

\* the folders of the source whose name, in the folder they lie in, matches
\* an ignore pattern of the call
IgnoredSourceFolders ==
    {rel \in DOMAIN Source(fs) :
        /\ Source(fs)[rel].kind = FolderInfo
        /\ isIgnoreFile(args.ignoreFileGlobs, RelString(Parent(rel)), Last(rel))}

\* C19: when a folder of the source is ignored, no list, hash, exists, copy
\* or ensureDir is issued for a path at or beneath it, in the source or in
\* the destination, whatever the names beneath it match; and the sync
\* creates nothing at or beneath its place in the destination.
C19_DirectoryPruning ==
    run > 0 =>
        \A q \in IgnoredSourceFolders :
            /\ \A o \in issued :
                  o.op \in {"list", "hashFile", "exists", "copy", "ensureDir"} =>
                      ~IsPrefix(q, OpRel(o))
            /\ \A p \in DOMAIN fs :
                  IsPrefix(destRoot \o q, p) =>
                      p \in DOMAIN hist.fsBefore /\ fs[p] = hist.fsBefore[p]

\* a successful call that copied a file and left out an ignored folder
\* which holds an entry that no pattern matches, and which the destination
\* does not have
C19_Witness ==
    /\ Completed /\ Succeeded(LastCall)
    /\ Copies(issued) # {}
    /\ \E q \in IgnoredSourceFolders :
          /\ destRoot \o q \notin DOMAIN fs
          /\ \E rel \in DOMAIN Source(fs) :
                /\ Parent(rel) = q
                /\ ~isIgnoreFile(args.ignoreFileGlobs, RelString(q), Last(rel))

----------------------------------------------------------------------------
(* C20: under Spec *)

\* the operation in flight after the step is for the pair of files the
\* operation in flight before it was for
SamePair ==
    /\ inflight'.sourceFilePath = inflight.sourceFilePath
    /\ inflight'.destFilePath = inflight.destFilePath

\* the step issues the copy of the pair in flight
CopyIssued == inflight'.step = "copy" /\ SamePair

\* the step issues the hashing of the destination of the pair in flight
HashDestIssued == inflight'.step = "hashDest" /\ SamePair

\* the digests of the two files of the pair in flight differ
DigestsDiffer ==
    HashFile(fs, inflight.sourceFilePath) # HashFile(fs, inflight.destFilePath)

\* C20: for one pair of a source file and a destination path, the copy is
\* issued iff the destination does not exist or its digest differs from the
\* source's; with equal digests nothing is written and the update reports
\* success; the destination is hashed only after the existence check has
\* reported it present.
C20_ReconciliationDecision ==
    [][/\ inflight.step = "exists" /\ failure' = NoErr =>
              /\ CopyIssued <=> ~Exists(fs, inflight.destFilePath)
              /\ HashDestIssued <=> Exists(fs, inflight.destFilePath)
       /\ inflight.step = "hashDest" /\ failure' = NoErr =>
              /\ inflight.sourceFileHash = HashFile(fs, inflight.sourceFilePath)
              /\ CopyIssued <=> DigestsDiffer
              /\ ~DigestsDiffer =>
                    /\ fs' = fs
                    /\ [op |-> "copy", path |-> inflight.destFilePath] \notin issued'
                    /\ inflight' = NoOp \/ ~SamePair
       /\ inflight'.step = "copy" /\ inflight.step # "copy" =>
              /\ inflight.step \in {"exists", "hashDest"}
              /\ failure' = NoErr
              /\ SamePair
       /\ inflight'.step = "hashDest" /\ inflight.step # "hashDest" =>
              /\ inflight.step = "exists"
              /\ failure' = NoErr
              /\ SamePair
              /\ Exists(fs, inflight.destFilePath)
      ]_vars

\* a successful call that hashed one destination file and left it alone,
\* and copied another file
C20_Witness ==
    /\ Completed /\ Succeeded(LastCall)
    /\ \E d1, d2 \in DOMAIN Dest(fs) :
          /\ [op |-> "hashFile", path |-> destRoot \o d1] \in issued
          /\ [op |-> "copy", path |-> destRoot \o d1] \notin issued
          /\ [op |-> "copy", path |-> destRoot \o d2] \in issued

----------------------------------------------------------------------------
(* C21: under SpecLive *)

\* the entries below the folder p, at any depth
EntriesBelow(p) == Cardinality(DOMAIN Subtree(fs, p))

\* every invocation but the outermost is on a folder of the folder the
\* invocation that made it is on, and has fewer entries below it
Descends ==
    \A j \in 2..Len(stack) :
        /\ Parent(stack[j].sourceFolderPath) = stack[j - 1].sourceFolderPath
        /\ IsFolderAt(fs, stack[j].sourceFolderPath)
        /\ EntriesBelow(stack[j].sourceFolderPath)
              < EntriesBelow(stack[j - 1].sourceFolderPath)

\* the source folders listed below the root are folders of the source that
\* no ignore pattern matches
RecursesIntoKeptFoldersOnly ==
    \A o \in issued :
        o.op = "list" /\ IsPrefix(sourceRoot, o.path) /\ o.path # sourceRoot =>
            /\ IsFolderAt(fs, o.path)
            /\ ~isIgnoreFile(args.ignoreFileGlobs,
                             RelString(Parent(OpRel(o))), Last(o.path))

\* C21: whatever each operation returns, a result or an error, a sync call
\* that has started calls its completion callback in the end; every nested
\* invocation is on a sub-folder with strictly fewer entries below it, and
\* only the sub-folders that no ignore pattern matches get an invocation.
C21_Termination ==
    /\ [](Descends /\ RecursesIntoKeptFoldersOnly)
    /\ (run > 0 /\ cbCalls = <<>>) ~> (Len(cbCalls) = 1)

\* a call that went two folders down and ended with an error, and a folder
\* of the source that was not visited
C21_Witness ==
    /\ Completed /\ Failed(LastCall)
    /\ \E o \in issued : o.op = "list" /\ Len(o.path) = Len(sourceRoot) + 2
    /\ \E rel \in DOMAIN Source(fs) :
          /\ Source(fs)[rel].kind = FolderInfo
          /\ [op |-> "list", path |-> sourceRoot \o rel] \notin issued

----------------------------------------------------------------------------
(* C22: under Spec *)

\* C22: the listings return the entries of a folder in any order, and the
\* destination tree a successful sync leaves is the one that the source
\* tree, the destination tree and the options of the call determine: the
\* tree that results from the removals, the file updates and the sub-folder
\* visits of every folder taken in one fixed order.
C22_OrderIndependence ==
    \A i \in 1..Len(hist.calls) :
        Succeeded(hist.calls[i]) =>
            hist.calls[i].fsAfter = SyncResult(hist.calls[i].fsBefore, hist.calls[i].args)

\* a successful call that found two entries to remove in the root, whose
\* listing comes in either order, and then copied a file
C22_Witness ==
    /\ Completed /\ Succeeded(LastCall)
    /\ Cardinality(RemovedIn(<<>>)) = 2
    /\ Copies(issued) # {}

----------------------------------------------------------------------------
(* C23: under Spec *)

\* path.join(root, relativePath): the names of the relative path, which
\* '/' separates, after those of root
JoinRelative(root, relativePath) ==
    root \o SelectSeq(slashSplit(relativePath), LAMBDA part : part # <<>>)

\* C23: in every _syncFolder invocation in progress the relative path
\* begins with '/', the source folder of the invocation is the source folder
\* of the call joined with the relative path, its destination folder is the
\* destination folder of the call joined with the relative path, and its
\* deleteExtraneous and ignore list are those given to the call.
C23_RelativePath ==
    \A j \in 1..Len(stack) :
        /\ Len(stack[j].internal_folder_path) > 0
        /\ stack[j].internal_folder_path[1] = SLASH
        /\ stack[j].sourceFolderPath
              = JoinRelative(sourceRoot, stack[j].internal_folder_path)
        /\ stack[j].destFolderPath
              = JoinRelative(destRoot, stack[j].internal_folder_path)
        /\ stack[j].deleteExtraneous = args.deleteExtraneous
        /\ stack[j].ignoreFileGlobs = args.ignoreFileGlobs

\* an invocation two folders below the root, in a call with
\* deleteExtraneous and an ignore list
C23_Witness ==
    /\ Len(stack) = 3
    /\ stack[3].internal_folder_path = RelString(<<s_a_txt, s_a_txt>>)
    /\ args.deleteExtraneous /\ args.ignoreFileGlobs.defined
    /\ inflight.step = "listDest"

----------------------------------------------------------------------------
(* C24: under Spec *)

\* the operations the step hands to a collaborator
NewlyIssued == IF run' # run THEN issued' ELSE issued' \ issued

\* C24: every step of a call, which is the start of the call or the
\* completion callback of the one operation in flight, hands at most one
\* operation to a collaborator, and that operation is the one in flight
\* after the step; an operation is handed over only by the start of a call
\* with nothing in flight or by the callback of the operation in flight, and
\* nothing is in flight once the caller's callback has been called.
C24_SequentialExecution ==
    [][/\ Cardinality(NewlyIssued) <= 1
       /\ NewlyIssued # {} =>
              /\ NewlyIssued = {[op |-> inflight'.op, path |-> inflight'.path]}
              /\ \/ Idle /\ run' = run + 1
                 \/ /\ run' = run
                    /\ [op |-> inflight.op, path |-> inflight.path] \in issued
                    /\ failure' = NoErr
       /\ inflight' # NoOp /\ inflight' # inflight => NewlyIssued # {}
       /\ cbCalls' # <<>> => inflight' = NoOp
      ]_vars

\* the seventh operation of a call is in flight
C24_Witness ==
    /\ inflight # NoOp
    /\ Cardinality(issued) = 7
    /\ [op |-> inflight.op, path |-> inflight.path] \in issued

----------------------------------------------------------------------------
(* C25: under Spec *)

\* the listing of a source folder has failed in this call
SourceListingFailed ==
    /\ failure # NoErr
    /\ failure.type = "ListingError"
    /\ IsPrefix(sourceRoot, failure.path)

\* C25: the destination folder of a visit is ensured only after the source
\* folder of the visit has been listed without error; when the listing of a
\* source folder fails, at the root or below it, its destination folder has
\* not been ensured and is not created, nothing at or beneath it has been
\* written by the visit (what is there is as it was before the call, and
\* what is gone is the entry itself, removed by the visit of the folder
\* above), and the caller's callback receives that error.
C25_ListingFailureOrder ==
    /\ \A o \in issued :
          o.op = "ensureDir" =>
              /\ [op |-> "list", path |-> sourceRoot \o OpRel(o)] \in issued
              /\ failure # Err("ListingError", sourceRoot \o OpRel(o))
    /\ SourceListingFailed =>
          LET dest == destRoot \o RelOf(sourceRoot, failure.path)
          IN  /\ cbCalls = <<failure>>
              /\ [op |-> "ensureDir", path |-> dest] \notin issued
              /\ \A o \in issued :
                    IsPrefix(dest, o.path) => o.op = "remove" /\ o.path = dest
              /\ \A p \in DOMAIN fs :
                    IsPrefix(dest, p) =>
                        p \in DOMAIN hist.fsBefore /\ fs[p] = hist.fsBefore[p]
              /\ \A p \in DOMAIN hist.fsBefore \ DOMAIN fs :
                    IsPrefix(dest, p) => p = dest

\* the listing of a sub-folder of the source failed after a file was
\* copied, and the destination has no folder of that name
C25_Witness ==
    /\ SourceListingFailed
    /\ Len(failure.path) > Len(sourceRoot)
    /\ Copies(issued) # {}
    /\ destRoot \o RelOf(sourceRoot, failure.path) \notin DOMAIN fs

----------------------------------------------------------------------------
(* C26: under Spec *)

\* C26: with collaborators that call back once each, the caller's callback
\* is called at most once in a sync call, with an error or without one and
\* never both, whichever operation fails; after it nothing is in flight and
\* no invocation is in progress, and it is not called again before the next
\* call of sync.
C26_AtMostOneCompletion ==
    /\ [](/\ Len(cbCalls) <= 1
          /\ cbCalls # <<>> => Idle
          /\ \A i \in 1..Len(hist.calls) : Len(hist.calls[i].result) = 1)
    /\ [][cbCalls # <<>> /\ run' = run => cbCalls' = cbCalls /\ Idle']_vars

\* a call failed in a copy below the root, and the call after it succeeded
C26_Witness ==
    /\ run = 2 /\ Completed
    /\ Failed(hist.calls[1]) /\ Succeeded(hist.calls[2])
    /\ hist.calls[1].failure.type = "CopyError"
    /\ Len(hist.calls[1].failure.path) > Len(destRoot) + 1

----------------------------------------------------------------------------
(* C27: under Spec *)

\* the entries the destination had when the call began, in a folder the
\* call has visited, whose name matches an ignore pattern in that folder
IgnoredDestEntries ==
    {rel \in DOMAIN Dest(hist.fsBefore) :
        /\ Parent(rel) \in Visited
        /\ isIgnoreFile(args.ignoreFileGlobs, RelString(Parent(rel)), Last(rel))}

\* C27: a destination entry whose name matches an ignore pattern in a
\* visited folder is the target of no operation of the call, and neither is
\* any path beneath it: it is not removed, not overwritten and not descended
\* into, with and without deleteExtraneous and whatever the source has under
\* its name; the entry and everything beneath it are after the call what
\* they were before it.
C27_IgnoredDestinationFrame ==
    run > 0 =>
        \A rel \in IgnoredDestEntries :
            /\ \A o \in issued : ~IsPrefix(destRoot \o rel, o.path)
            /\ destRoot \o rel \in DOMAIN fs
            /\ fs[destRoot \o rel] = hist.fsBefore[destRoot \o rel]
            /\ Subtree(fs, destRoot \o rel) = Subtree(hist.fsBefore, destRoot \o rel)

\* a successful call with deleteExtraneous that changed the destination and
\* left alone an ignored destination entry whose source entry is of the
\* other kind
C27_Witness ==
    /\ Completed /\ Succeeded(LastCall) /\ args.deleteExtraneous
    /\ Dest(fs) # Dest(hist.fsBefore)
    /\ \E rel \in IgnoredDestEntries :
          /\ rel \in DOMAIN Source(fs)
          /\ Source(fs)[rel].kind # Dest(fs)[rel].kind

----------------------------------------------------------------------------
(* C28: under Spec *)

\* the entries removed by the call whose name the source has: those removed
\* for being of the other kind
RemovedForKind ==
    {rel \in {OpRel(o) : o \in Removes(issued)} :
        /\ rel \in DOMAIN Source(fs)
        /\ Source(fs)[rel].kind # Dest(hist.fsBefore)[rel].kind}

\* the paths of a tree at or beneath rel
Beneath(tree, rel) == {r \in DOMAIN tree : IsPrefix(rel, r)}

\* C28: after a successful sync, with or without deleteExtraneous, every
\* destination entry that the sync removed because the source entry of its
\* name is of the other kind is there again as the source has it: a file
\* with the digest of the source file, or a folder that holds what the
\* source folder holds, less what is ignored, and nothing else.
C28_KindMismatchReplacement ==
    Completed /\ Succeeded(LastCall) =>
        \A rel \in RemovedForKind :
            /\ rel \in DOMAIN Dest(fs)
            /\ Dest(fs)[rel] = Source(fs)[rel]
            /\ Beneath(Dest(fs), rel)
                  = Beneath(Source(fs), rel) \cap Kept(args.ignoreFileGlobs, Source(fs))
            /\ \A r \in Beneath(Dest(fs), rel) : Dest(fs)[r] = Source(fs)[r]

\* a successful call that replaced a file by the folder of the source, with
\* a file in it
C28_Witness ==
    /\ Completed /\ Succeeded(LastCall)
    /\ \E rel \in RemovedForKind :
          /\ Source(fs)[rel].kind = FolderInfo
          /\ Cardinality(Beneath(Dest(fs), rel)) > 1

----------------------------------------------------------------------------
(* C29: under Spec *)

\* the folders the destination had when the call began, in a folder the
\* call has visited, that no ignore pattern matches there and that the
\* source does not have, or has as a file
ExtraneousDestFolders ==
    {rel \in DOMAIN Dest(hist.fsBefore) :
        /\ Dest(hist.fsBefore)[rel].kind = FolderInfo
        /\ Parent(rel) \in Visited
        /\ ~isIgnoreFile(args.ignoreFileGlobs, RelString(Parent(rel)), Last(rel))
        /\ rel \in DOMAIN Source(fs) => Source(fs)[rel].kind = FileInfo}

\* the entries beneath rel that the destination had when the call began
\* and that match an ignore pattern in the folder they lie in
IgnoredBeneath(rel) ==
    {r \in Beneath(Dest(hist.fsBefore), rel) \ {rel} :
        isIgnoreFile(args.ignoreFileGlobs, RelString(Parent(r)), Last(r))}

\* C29: after a successful sync with deleteExtraneous, every destination
\* folder of a visited folder that is not ignored and that the source does
\* not have, or has as a file, has been removed by one remove of the folder
\* itself: no operation of the call targets a path beneath it, and nothing
\* that was beneath it is left, the entries that match an ignore pattern at
\* their own place included.
C29_SubtreeRemoval ==
    Completed /\ Succeeded(LastCall) /\ args.deleteExtraneous =>
        \A rel \in ExtraneousDestFolders :
            /\ [op |-> "remove", path |-> destRoot \o rel] \in issued
            /\ \A o \in issued :
                  IsPrefix(destRoot \o rel, o.path) => o.path = destRoot \o rel
            /\ Beneath(Dest(fs), rel) \ {rel} = {}
            /\ IF rel \in DOMAIN Source(fs)
               THEN rel \in DOMAIN Dest(fs) /\ Dest(fs)[rel] = Source(fs)[rel]
               ELSE rel \notin DOMAIN Dest(fs)

\* a successful call with deleteExtraneous that removed a folder the source
\* does not have, with an entry in it that matches an ignore pattern
C29_Witness ==
    /\ Completed /\ Succeeded(LastCall) /\ args.deleteExtraneous
    /\ \E rel \in ExtraneousDestFolders :
          /\ rel \notin DOMAIN Source(fs)
          /\ IgnoredBeneath(rel) # {}

====
